---- MODULE Spec2Model ----
(***************************************************************************)
(* Model of the graduate tuition token-stream parser                       *)
(* (src/parse_grad_tuition.py) and of the programs around it.  Strings are *)
(* sequences of one-character strings, so that the regular expressions and *)
(* the string methods of the scripts are computed character by character.  *)
(* Python's None is the empty tuple and a present value x is the           *)
(* one-element tuple <<x>>.  run counts the runs of the script on the same *)
(* list and first_result keeps what the first run wrote.                   *)
(* Each program has its own variables; a program that is not run stays in  *)
(* its idle state.                                                         *)
(***************************************************************************)
EXTENDS Integers, Sequences, FiniteSets, TLC

VARIABLES items, i, pc, tuition_unit_default, tuition_rates, fees,
          current_fee, current_rows, log, reads, read_from, run, first_result,
          nodes, stop_names, spc, out, cleaned,
          ug_items, ug_i, ug_pc, section_name, tuition, ug_fees, ug_reads,
          all_people, page_num, no_results_count, unique_people, dir_pc,
          requested, responses,
          doc, page_break, hb_pc, line_no, sections, current_section, buffer

\* src/parse_grad_tuition.py
gradVars == <<items, i, pc, tuition_unit_default, tuition_rates, fees,
              current_fee, current_rows, log, reads, read_from, run, first_result>>

\* src/scrape_grad_tuition.py and src/scrape_tuition.py: the collector
scrapeVars == <<nodes, stop_names, spc, out, cleaned>>

\* src/src/parse_tuition.py: items, i, section_name, tuition, fees
ugVars == <<ug_items, ug_i, ug_pc, section_name, tuition, ug_fees, ug_reads>>

\* src/Directory.py: scrape_all_people
dirVars == <<all_people, page_num, no_results_count, unique_people, dir_pc,
             requested, responses>>

\* src/src/scrape_coterminal_handbook.py: extract_sections
hbVars == <<doc, page_break, hb_pc, line_no, sections, current_section, buffer>>

vars == <<gradVars, scrapeVars, ugVars, dirVars, hbVars>>

\* what a step of each program leaves alone
notGrad == <<scrapeVars, ugVars, dirVars, hbVars>>
notScrape == <<gradVars, ugVars, dirVars, hbVars>>
notUg == <<gradVars, scrapeVars, dirVars, hbVars>>
notDir == <<gradVars, scrapeVars, ugVars, hbVars>>
notHb == <<gradVars, scrapeVars, ugVars, dirVars>>

GradIdle ==
    /\ items = <<>>
    /\ i = 0
    /\ pc = "off"
    /\ tuition_unit_default = <<>>
    /\ tuition_rates = <<>>
    /\ fees = <<>>
    /\ current_fee = <<>>
    /\ current_rows = <<>>
    /\ log = <<>>
    /\ reads = {}
    /\ read_from = 0
    /\ run = 1
    /\ first_result = <<>>

ScrapeIdle ==
    /\ nodes = <<>>
    /\ stop_names = {}
    /\ spc = "off"
    /\ out = <<>>
    /\ cleaned = <<>>

UgIdle ==
    /\ ug_items = <<>>
    /\ ug_i = 0
    /\ ug_pc = "off"
    /\ section_name = 0
    /\ tuition = <<>>
    /\ ug_fees = <<>>
    /\ ug_reads = {}

DirIdle ==
    /\ all_people = <<>>
    /\ page_num = 0
    /\ no_results_count = 0
    /\ unique_people = <<>>
    /\ dir_pc = "off"
    /\ requested = <<>>
    /\ responses = <<>>

HbIdle ==
    /\ doc = <<>>
    /\ page_break = 0
    /\ hb_pc = "off"
    /\ line_no = 1
    /\ sections = <<>>
    /\ current_section = <<>>
    /\ buffer = <<>>

NotGradIdle == ScrapeIdle /\ UgIdle /\ DirIdle /\ HbIdle

NotScrapeIdle == GradIdle /\ UgIdle /\ DirIdle /\ HbIdle

NotUgIdle == GradIdle /\ ScrapeIdle /\ DirIdle /\ HbIdle

NotDirIdle == GradIdle /\ ScrapeIdle /\ UgIdle /\ HbIdle

NotHbIdle == GradIdle /\ ScrapeIdle /\ UgIdle /\ DirIdle

\* Longest token list the parser is run on.
MaxLen == 4

None == <<>>
Some(x) == <<x>>

----------------------------------------------------------------------------
(* Characters and string methods *)

Digits == <<"0", "1", "2", "3", "4", "5", "6", "7", "8", "9">>

IsDigit(c) == \E d \in 1..10 : Digits[d] = c

DigitVal(c) == (CHOOSE d \in 1..10 : Digits[d] = c) - 1

IsSpace(c) == c \in {" ", "\t", "\n", "\r"}

\* pat in s
Contains(s, pat) ==
    \E p \in 1..(Len(s) - Len(pat) + 1) : SubSeq(s, p, p + Len(pat) - 1) = pat

\* s.replace(c, "") for a one-character c
RECURSIVE RemoveChar(_, _)
RemoveChar(s, c) ==
    IF s = <<>> THEN <<>>
    ELSE IF Head(s) = c THEN RemoveChar(Tail(s), c)
    ELSE <<Head(s)>> \o RemoveChar(Tail(s), c)

RECURSIVE LStrip(_)
LStrip(s) ==
    IF s # <<>> /\ IsSpace(Head(s)) THEN LStrip(Tail(s)) ELSE s

RECURSIVE RStrip(_)
RStrip(s) ==
    IF s # <<>> /\ IsSpace(s[Len(s)]) THEN RStrip(SubSeq(s, 1, Len(s) - 1)) ELSE s

\* s.strip()
Strip(s) == RStrip(LStrip(s))

\* re.sub(r"\s+", " ", s)
RECURSIVE CollapseSpaces(_)
CollapseSpaces(s) ==
    IF s = <<>> THEN <<>>
    ELSE IF IsSpace(Head(s))
         THEN <<" ">> \o CollapseSpaces(LStrip(s))
         ELSE <<Head(s)>> \o CollapseSpaces(Tail(s))

\* s.split("/", 1)[1], for a string that contains "/"
AfterFirstSlash(s) ==
    LET p == CHOOSE q \in 1..Len(s) :
                 s[q] = "/" /\ \A r \in 1..(q - 1) : s[r] # "/"
    IN SubSeq(s, p + 1, Len(s))

\* the greedy match of [\d,]* from position p on
RECURSIVE DigitCommaRun(_, _)
DigitCommaRun(s, p) ==
    IF p <= Len(s) /\ (IsDigit(s[p]) \/ s[p] = ",")
    THEN <<s[p]>> \o DigitCommaRun(s, p + 1)
    ELSE <<>>

\* int(ds) for a string of decimal digits
RECURSIVE PyInt(_)
PyInt(ds) ==
    IF ds = <<>> THEN 0
    ELSE 10 * PyInt(SubSeq(ds, 1, Len(ds) - 1)) + DigitVal(ds[Len(ds)])

----------------------------------------------------------------------------
(* The recognisers of the script *)

\* positions where r"\$(\d[\d,]*)" matches
AmountMatches(s) ==
    {p \in 1..(Len(s) - 1) : s[p] = "$" /\ IsDigit(s[p + 1])}

\* positions where r"\$\s*\d" matches
MoneyMatches(s) ==
    {p \in 1..Len(s) :
        /\ s[p] = "$"
        /\ \E q \in (p + 1)..Len(s) :
              /\ IsDigit(s[q])
              /\ \A r \in (p + 1)..(q - 1) : IsSpace(s[r])}

Leftmost(S) == CHOOSE p \in S : \A q \in S : p <= q

\* the unit text of lines 17-21: None without a "/"
UnitOf(s) ==
    IF Contains(s, <<"/">>)
    THEN Some(CollapseSpaces(Strip(AfterFirstSlash(s))))
    ELSE None

\* the pair (amount, unit)
money_amount_and_unit(s) ==
    IF AmountMatches(s) = {}
    THEN <<None, None>>
    ELSE <<Some(PyInt(RemoveChar(DigitCommaRun(s, Leftmost(AmountMatches(s)) + 1), ","))),
           UnitOf(s)>>

looks_like_money(s) == MoneyMatches(s) # {}

looks_like_fee_name(s) == Contains(s, <<"F", "e", "e">>)

\* a header test that also asks the token not to be money
is_fee_header_not_money(tok) == looks_like_fee_name(tok) /\ ~looks_like_money(tok)

is_fee_header(tok) == looks_like_fee_name(tok) /\ Contains(tok, <<"F", "e", "e">>)

\* Python truth value of an optional string: None and "" are false
Truthy(opt) == opt # None /\ opt[1] # <<>>

----------------------------------------------------------------------------
(* Tokens the input lists are drawn from *)

\* the decoration character U+00BB of line 115, written here in ASCII
Raquo == ">"

PerCreditHour == <<"P","e","r"," ","C","r","e","d","i","t"," ","H","o","u","r">>
PerSemester == <<"P","e","r"," ","S","e","m","e","s","t","e","r">>
PerCreditHourUnit == <<"p","e","r"," ","c","r","e","d","i","t"," ","h","o","u","r">>

TokFeeHeader == <<"L","a","b"," ","F","e","e"," ",Raquo>>
TokLabel == <<"F","u","l","l">>
TokStray == <<Raquo>>
TokMoney == <<"$","1",",","8","5","1">>
TokMoneyGap == <<"$"," ","5","0">>
TokMoneyUnit == <<"$","2",",","3","1","4"," ","/","p","e","r"," "," ","c","o","u","r","s","e">>
TokFeeMoney == <<"F","e","e"," ","$","5">>
TokMoneyTwo == <<"$"," ","5"," ","$","7","/">>

Vocabulary ==
    {PerCreditHour, PerSemester, TokFeeHeader, TokLabel, TokStray, TokMoney,
     TokMoneyGap, TokMoneyUnit, TokMoneyTwo, TokFeeMoney}

TokenLists == UNION {[1..n -> Vocabulary] : n \in 0..MaxLen}

----------------------------------------------------------------------------
(* The script's state.  i is Python's 0-based cursor. *)

At(k) == items[k + 1]

InRange(k) == 0 <= k /\ k < Len(items)

\* the index of the one token read ahead of the cursor (lines 64 and 122)
NextIdx(k) == k + 1

\* the bound test written with <= instead of <
LookaheadBoundInclusive(k) == NextIdx(k) <= Len(items)

\* i + 1 < len(items)
LookaheadBound(k) == NextIdx(k) < Len(items)

\* items[i + 1] raises IndexError when the index is not in the list
LookaheadRaises(k) == LookaheadBound(k) /\ ~InRange(NextIdx(k))

\* i + 1 < len(items) and looks_like_money(items[i + 1])
NextIsMoney(k) ==
    LookaheadBound(k) /\ InRange(NextIdx(k)) /\ looks_like_money(At(NextIdx(k)))

\* int() raises ValueError on a string with no digit
IntRaises(s) ==
    /\ AmountMatches(s) # {}
    /\ RemoveChar(DigitCommaRun(s, Leftmost(AmountMatches(s)) + 1), ",") = <<>>

\* amount, unit = money_amount_and_unit(items[i + 1])
NextAmount(k) == money_amount_and_unit(At(NextIdx(k)))[1]
NextUnit(k) == money_amount_and_unit(At(NextIdx(k)))[2]

\* an iteration at cursor k that tests the lookahead ends in an exception
PairingRaises(k) ==
    LookaheadRaises(k) \/ (NextIsMoney(k) /\ IntRaises(At(NextIdx(k))))

\* the token indices an iteration at cursor k reads when it tests the lookahead
IterationReads(k) == {k} \cup (IF LookaheadBound(k) THEN {NextIdx(k)} ELSE {})

\* the default wins over the row's own unit
TuitionUnitDefaultFirst(unit, default) == IF Truthy(default) THEN default ELSE unit

\* the row's own unit only, no fallback
TuitionUnitNoFallback(unit, default) == unit

\* unit if unit else tuition_unit_default
TuitionUnit(unit, default) == IF Truthy(unit) THEN unit ELSE default

\* a pair that advances the cursor over the label only
AfterPairKeepsMoney(k) == k + 1

\* the cursor after a label/money pair has been emitted
AfterPair(k) == k + 2

\* a skip that leaves the cursor where it is
AfterOneStays(k) == k

\* the cursor after one token has been consumed or skipped
AfterOne(k) == k + 1

Init ==
    /\ items \in TokenLists
    /\ i = 0
    /\ pc = "tuition"
    /\ tuition_unit_default = None
    /\ tuition_rates = <<>>
    /\ fees = <<>>
    /\ current_fee = None
    /\ current_rows = <<>>
    /\ log = <<>>
    /\ reads = {}
    /\ read_from = 0
    /\ run = 1
    /\ first_result = None
    /\ NotGradIdle

----------------------------------------------------------------------------
(* Phase 1: tuition rates, lines 45-78 *)

\* a marker test that forgets "Per Semester"
IsMarkerCreditOnly(tok) == tok = PerCreditHour

IsMarker(tok) == tok = PerCreditHour \/ tok = PerSemester

\* the record appended to parsed["tuition_rates"]
TuitionRate(k) ==
    [label |-> At(k), amount |-> NextAmount(k),
     unit |-> TuitionUnit(NextUnit(k), tuition_unit_default)]

\* the test of lines 64 and 69 together
TuitionPairs(k) == NextIsMoney(k) /\ NextAmount(k) # None

TuitionMarker ==
    /\ pc = "tuition"
    /\ InRange(i)
    /\ At(i) = PerCreditHour
    /\ tuition_unit_default' = Some(PerCreditHourUnit)
    /\ i' = AfterOne(i)
    /\ reads' = {i}
    /\ read_from' = i
    /\ UNCHANGED <<run, first_result>>
    /\ UNCHANGED notGrad
    /\ UNCHANGED <<items, pc, tuition_rates, fees, current_fee, current_rows, log>>

TuitionBreak ==
    /\ pc = "tuition"
    /\ InRange(i)
    /\ At(i) # PerCreditHour
    /\ At(i) = PerSemester
    /\ pc' = "seek"
    /\ reads' = {i}
    /\ read_from' = i
    /\ UNCHANGED <<run, first_result>>
    /\ UNCHANGED notGrad
    /\ UNCHANGED <<items, i, tuition_unit_default, tuition_rates, fees,
                   current_fee, current_rows, log>>

TuitionPair ==
    /\ pc = "tuition"
    /\ InRange(i)
    /\ ~IsMarker(At(i))
    /\ ~PairingRaises(i)
    /\ TuitionPairs(i)
    /\ tuition_rates' = Append(tuition_rates, TuitionRate(i))
    /\ log' = Append(log, [kind |-> "rate", toks |-> <<i, NextIdx(i)>>,
                           rec |-> TuitionRate(i)])
    /\ i' = AfterPair(i)
    /\ reads' = IterationReads(i)
    /\ read_from' = i
    /\ UNCHANGED <<run, first_result>>
    /\ UNCHANGED notGrad
    /\ UNCHANGED <<items, pc, tuition_unit_default, fees, current_fee, current_rows>>

TuitionSkip ==
    /\ pc = "tuition"
    /\ InRange(i)
    /\ ~IsMarker(At(i))
    /\ IF PairingRaises(i)
       THEN /\ pc' = "raised"
            /\ i' = i
       ELSE /\ ~TuitionPairs(i)
            /\ pc' = pc
            /\ i' = AfterOne(i)
    /\ reads' = IterationReads(i)
    /\ read_from' = i
    /\ UNCHANGED <<run, first_result>>
    /\ UNCHANGED notGrad
    /\ UNCHANGED <<items, tuition_unit_default, tuition_rates, fees,
                   current_fee, current_rows, log>>

TuitionEnd ==
    /\ pc = "tuition"
    /\ ~InRange(i)
    /\ pc' = "seek"
    /\ reads' = {}
    /\ read_from' = i
    /\ UNCHANGED <<run, first_result>>
    /\ UNCHANGED notGrad
    /\ UNCHANGED <<items, i, tuition_unit_default, tuition_rates, fees,
                   current_fee, current_rows, log>>

----------------------------------------------------------------------------
(* Between the phases: lines 96-102 *)

\* while i < len(items) and items[i] != "Per Semester": i += 1
RECURSIVE SeekTerminator(_)
SeekTerminator(k) ==
    IF InRange(k) /\ At(k) # PerSemester THEN SeekTerminator(k + 1) ELSE k

\* if i < len(items) and items[i] == "Per Semester": i += 1
PastTerminator(k) == IF InRange(k) /\ At(k) = PerSemester THEN k + 1 ELSE k

\* a skip that starts the fee loop at the first token when no terminator is found
SkipTerminatorRestart ==
    /\ pc = "seek"
    /\ i' = IF InRange(SeekTerminator(i)) THEN PastTerminator(SeekTerminator(i)) ELSE 0
    /\ pc' = "fees"
    /\ reads' = {k \in i..SeekTerminator(i) : InRange(k)}
    /\ read_from' = i
    /\ UNCHANGED <<run, first_result>>
    /\ UNCHANGED notGrad
    /\ UNCHANGED <<items, tuition_unit_default, tuition_rates, fees,
                   current_fee, current_rows, log>>

SkipTerminator ==
    /\ pc = "seek"
    /\ i' = PastTerminator(SeekTerminator(i))
    /\ pc' = "fees"
    /\ reads' = {k \in i..SeekTerminator(i) : InRange(k)}
    /\ read_from' = i
    /\ UNCHANGED <<run, first_result>>
    /\ UNCHANGED notGrad
    /\ UNCHANGED <<items, tuition_unit_default, tuition_rates, fees,
                   current_fee, current_rows, log>>

----------------------------------------------------------------------------
(* Phase 2: fees, lines 83-94 and 105-138 *)

\* a flush that forgets to test current_rows
FlushedFeesAnyRows(fs, cf, cr) ==
    IF Truthy(cf) THEN Append(fs, [fee_name |-> cf[1], rows |-> cr]) ELSE fs

\* parsed["fees"] after flush_fee()
FlushedFees(fs, cf, cr) ==
    IF Truthy(cf) /\ cr # <<>>
    THEN Append(fs, [fee_name |-> cf[1], rows |-> cr])
    ELSE fs

\* tok.replace(Raquo, "").strip()
FeeName(tok) == Strip(RemoveChar(tok, Raquo))

\* a fee row that falls back to the tuition default unit
FeeRowRecWithDefault(k) ==
    [label |-> At(k), amount |-> NextAmount(k),
     unit |-> TuitionUnit(NextUnit(k), tuition_unit_default)]

\* the record appended to current_rows
FeeRowRec(k) == [label |-> At(k), amount |-> NextAmount(k), unit |-> NextUnit(k)]

\* a row test that does not ask for an open block
FeePairsNoBlock(k) == NextIsMoney(k)

\* the test of line 122
FeePairs(k) == Truthy(current_fee) /\ NextIsMoney(k)

\* the lookahead is read only when a block is open (left-to-right "and")
FeeReads(k) == IF Truthy(current_fee) THEN IterationReads(k) ELSE {k}

FeePairingRaises(k) == Truthy(current_fee) /\ PairingRaises(k)

\* a header branch whose flush does not empty current_rows
FeeHeaderKeepsRows ==
    /\ pc = "fees"
    /\ InRange(i)
    /\ is_fee_header(At(i))
    /\ fees' = FlushedFees(fees, current_fee, current_rows)
    /\ current_fee' = Some(FeeName(At(i)))
    /\ current_rows' = current_rows
    /\ log' = Append(log, [kind |-> "header", toks |-> <<i>>,
                           rec |-> [fee_name |-> FeeName(At(i))]])
    /\ i' = AfterOne(i)
    /\ reads' = {i}
    /\ read_from' = i
    /\ UNCHANGED <<run, first_result>>
    /\ UNCHANGED notGrad
    /\ UNCHANGED <<items, pc, tuition_unit_default, tuition_rates>>

FeeHeader ==
    /\ pc = "fees"
    /\ InRange(i)
    /\ is_fee_header(At(i))
    /\ fees' = FlushedFees(fees, current_fee, current_rows)
    /\ current_fee' = Some(FeeName(At(i)))
    /\ current_rows' = <<>>
    /\ log' = Append(log, [kind |-> "header", toks |-> <<i>>,
                           rec |-> [fee_name |-> FeeName(At(i))]])
    /\ i' = AfterOne(i)
    /\ reads' = {i}
    /\ read_from' = i
    /\ UNCHANGED <<run, first_result>>
    /\ UNCHANGED notGrad
    /\ UNCHANGED <<items, pc, tuition_unit_default, tuition_rates>>

FeeRow ==
    /\ pc = "fees"
    /\ InRange(i)
    /\ ~is_fee_header(At(i))
    /\ ~FeePairingRaises(i)
    /\ FeePairs(i)
    /\ current_rows' = Append(current_rows, FeeRowRec(i))
    /\ log' = Append(log, [kind |-> "row", toks |-> <<i, NextIdx(i)>>,
                           rec |-> FeeRowRec(i)])
    /\ i' = AfterPair(i)
    /\ reads' = FeeReads(i)
    /\ read_from' = i
    /\ UNCHANGED <<run, first_result>>
    /\ UNCHANGED notGrad
    /\ UNCHANGED <<items, pc, tuition_unit_default, tuition_rates, fees, current_fee>>

FeeSkip ==
    /\ pc = "fees"
    /\ InRange(i)
    /\ ~is_fee_header(At(i))
    /\ IF FeePairingRaises(i)
       THEN /\ pc' = "raised"
            /\ i' = i
       ELSE /\ ~FeePairs(i)
            /\ pc' = pc
            /\ i' = AfterOne(i)
    /\ reads' = FeeReads(i)
    /\ read_from' = i
    /\ UNCHANGED <<run, first_result>>
    /\ UNCHANGED notGrad
    /\ UNCHANGED <<items, tuition_unit_default, tuition_rates, fees,
                   current_fee, current_rows, log>>

\* the loop ends and the open block is not flushed
FeeEndNoFlush ==
    /\ pc = "fees"
    /\ ~InRange(i)
    /\ fees' = fees
    /\ current_fee' = None
    /\ current_rows' = <<>>
    /\ pc' = "done"
    /\ reads' = {}
    /\ read_from' = i
    /\ UNCHANGED <<run, first_result>>
    /\ UNCHANGED notGrad
    /\ UNCHANGED <<items, i, tuition_unit_default, tuition_rates, log>>

\* the loop ends and line 138 flushes the open block
FeeEnd ==
    /\ pc = "fees"
    /\ ~InRange(i)
    /\ fees' = FlushedFees(fees, current_fee, current_rows)
    /\ current_fee' = None
    /\ current_rows' = <<>>
    /\ pc' = "done"
    /\ reads' = {}
    /\ read_from' = i
    /\ UNCHANGED <<run, first_result>>
    /\ UNCHANGED notGrad
    /\ UNCHANGED <<items, i, tuition_unit_default, tuition_rates, log>>

Next ==
    \/ TuitionMarker
    \/ TuitionBreak
    \/ TuitionPair
    \/ TuitionSkip
    \/ TuitionEnd
    \/ SkipTerminator
    \/ FeeHeader
    \/ FeeRow
    \/ FeeSkip
    \/ FeeEnd

Spec == Init /\ [][Next]_vars

----------------------------------------------------------------------------
(* Termination: the script runs its statements one after the other, so a    *)
(* step that can be taken is taken (weak fairness of Next).  The tokens are *)
(* the shortest ones that the recognisers tell apart.                       *)

\* Longest token list of the termination runs.
MaxTermLen == 4

TokFee == <<"F", "e", "e">>
TokFive == <<"$", "5">>
TokFiveGap == <<"$", " ", "5">>

TermVocabulary == {PerCreditHour, PerSemester, TokFee, TokFive, TokFiveGap}

TermLists == UNION {[1..n -> TermVocabulary] : n \in 0..MaxTermLen}

InitTerm ==
    /\ items \in TermLists
    /\ i = 0
    /\ pc = "tuition"
    /\ tuition_unit_default = None
    /\ tuition_rates = <<>>
    /\ fees = <<>>
    /\ current_fee = None
    /\ current_rows = <<>>
    /\ log = <<>>
    /\ reads = {}
    /\ read_from = 0
    /\ run = 1
    /\ first_result = None
    /\ NotGradIdle

FairSpec == InitTerm /\ [][Next]_vars /\ WF_vars(Next)

----------------------------------------------------------------------------
(* Longer lists for the fee loop: a short tuition region, then up to       *)
(* MaxFeeLen tokens of fee headers, labels and money values.               *)

\* Longest fee region of these lists.
MaxFeeLen == 6

TokFeeMoneyUnit == <<"F","e","e"," ","$","5","/","x">>

FeeVocabulary == {TokFeeHeader, TokFeeMoneyUnit, TokLabel, TokMoney}

TuitionRegions ==
    {<<PerSemester>>, <<PerCreditHour, TokLabel, TokMoney, PerSemester>>}

\* a tuition region and a fee region, or one token and no terminator
FeeLists ==
    {<<TokStray>>} \cup
    {head \o tail : head \in TuitionRegions,
                    tail \in UNION {[1..n -> FeeVocabulary] : n \in 0..MaxFeeLen}}

InitFee ==
    /\ items \in FeeLists
    /\ i = 0
    /\ pc = "tuition"
    /\ tuition_unit_default = None
    /\ tuition_rates = <<>>
    /\ fees = <<>>
    /\ current_fee = None
    /\ current_rows = <<>>
    /\ log = <<>>
    /\ reads = {}
    /\ read_from = 0
    /\ run = 1
    /\ first_result = None
    /\ NotGradIdle

SpecFee == InitFee /\ [][Next]_vars

----------------------------------------------------------------------------
(* The script run a second time on the same list *)

\* Longest token list the script is run on twice.
MaxRerunLen == 4

RerunVocabulary ==
    {PerCreditHour, PerSemester, TokFeeHeader, TokLabel, TokMoney, TokMoneyUnit}

RerunLists == UNION {[1..n -> RerunVocabulary] : n \in 0..MaxRerunLen}

InitRerun ==
    /\ items \in RerunLists
    /\ i = 0
    /\ pc = "tuition"
    /\ tuition_unit_default = None
    /\ tuition_rates = <<>>
    /\ fees = <<>>
    /\ current_fee = None
    /\ current_rows = <<>>
    /\ log = <<>>
    /\ reads = {}
    /\ read_from = 0
    /\ run = 1
    /\ first_result = None
    /\ NotGradIdle

\* a second run that starts with the default unit the first run left
RerunKeepsDefault ==
    /\ pc = "done"
    /\ run = 1
    /\ run' = 2
    /\ first_result' = Some(<<tuition_rates, fees>>)
    /\ tuition_rates' = <<>>
    /\ fees' = <<>>
    /\ i' = 0
    /\ current_fee' = None
    /\ current_rows' = <<>>
    /\ pc' = "tuition"
    /\ log' = <<>>
    /\ reads' = {}
    /\ read_from' = 0
    /\ UNCHANGED <<items, tuition_unit_default>>
    /\ UNCHANGED notGrad

\* the script starts again: lines 36-46 and 83-84 are executed anew
Rerun ==
    /\ pc = "done"
    /\ run = 1
    /\ run' = 2
    /\ first_result' = Some(<<tuition_rates, fees>>)
    /\ tuition_rates' = <<>>
    /\ fees' = <<>>
    /\ i' = 0
    /\ tuition_unit_default' = None
    /\ current_fee' = None
    /\ current_rows' = <<>>
    /\ pc' = "tuition"
    /\ log' = <<>>
    /\ reads' = {}
    /\ read_from' = 0
    /\ UNCHANGED items
    /\ UNCHANGED notGrad

NextRerun == Next \/ Rerun

SpecRerun == InitRerun /\ [][NextRerun]_vars

----------------------------------------------------------------------------
(* Properties of the parser *)

\* rows emitted so far: tuition rates, rows of flushed blocks, rows of the open block
RowEntries == {k \in 1..Len(log) : log[k].kind \in {"rate", "row"}}
HeaderEntries == {k \in 1..Len(log) : log[k].kind = "header"}

AllFeeRows ==
    UNION {{fees[b].rows[r] : r \in 1..Len(fees[b].rows)} : b \in 1..Len(fees)}
        \cup {current_rows[r] : r \in 1..Len(current_rows)}

AllRates == {tuition_rates[r] : r \in 1..Len(tuition_rates)}

\* the token paired as money with the row of log entry k
MoneyTokOf(k) == At(log[k].toks[2])
LabelIdxOf(k) == log[k].toks[1]

\* C1: every tuition rate and every fee row has a non-null amount, in both phases.
C1_AmountNeverNull == \A r \in AllRates \cup AllFeeRows : r.amount # None

\* C2: the parser never raises, whatever the tokens are; both outputs are lists
\* (possibly empty), and on the empty token list both are empty.
C2_NoFailure ==
    /\ pc \in {"tuition", "seek", "fees", "done"}
    /\ DOMAIN tuition_rates = 1..Len(tuition_rates)
    /\ DOMAIN fees = 1..Len(fees)
    /\ (pc = "done" /\ items = <<>>) => (tuition_rates = <<>> /\ fees = <<>>)

C2_Witness ==
    /\ pc = "done"
    /\ Len(items) >= 2
    /\ i = Len(items)
    /\ ~looks_like_money(items[Len(items)])
    /\ looks_like_money(items[1])

\* C3: no fee block of the output has an empty rows sequence.
C3_NoEmptyFeeBlock == \A b \in 1..Len(fees) : fees[b].rows # <<>>

C3_Witness ==
    /\ pc = "done"
    /\ HeaderEntries # {}
    /\ Len(fees) < Cardinality(HeaderEntries)

\* the first index of the fee region: one past the first "Per Semester"
FeeRegionStart == PastTerminator(SeekTerminator(0))

\* indices whose token was consumed as the money value of a row
MoneyIdxs == {log[k].toks[2] : k \in RowEntries}
LabelIdxs == {log[k].toks[1] : k \in RowEntries}

HasFee(tok) == Contains(tok, <<"F", "e", "e">>)

\* no fee row has a label containing "Fee"
NoFeeRowLabel ==
    \A k \in RowEntries : log[k].kind = "row" => ~HasFee(log[k].rec.label)

\* token t of the fee region opened a block named after it
OpenedBlock(t) ==
    \E h \in HeaderEntries :
        log[h].toks = <<t>> /\ log[h].rec.fee_name = FeeName(At(t))

\* right after a "Fee" token was the current token, its block is the open one
JustOpened ==
    (pc = "fees" /\ i > FeeRegionStart /\ HasFee(At(i - 1)) /\ i - 1 \notin MoneyIdxs)
        => (current_fee = Some(FeeName(At(i - 1))) /\ current_rows = <<>>)

\* C4 as stated: in the fee region every token containing "Fee" starts a new block
\* and none is a row label, also when the next token is money.
C4_EveryFeeTokenOpensBlock ==
    /\ NoFeeRowLabel
    /\ pc \in {"fees", "done"} =>
          \A t \in FeeRegionStart..(i - 1) :
              HasFee(At(t)) => (t \notin LabelIdxs /\ OpenedBlock(t))

\* C4 (amended): in the fee region every token containing "Fee", except one already
\* consumed as the money value of the preceding row label, starts a new block, and
\* none is ever a row label, also when the next token is money.
C4_HeaderPrecedence ==
    /\ NoFeeRowLabel
    /\ JustOpened
    /\ pc \in {"fees", "done"} =>
          \A t \in FeeRegionStart..(i - 1) :
              (HasFee(At(t)) /\ t \notin MoneyIdxs) =>
                  (t \notin LabelIdxs /\ OpenedBlock(t))

C4_Witness ==
    /\ pc = "fees"
    /\ InRange(i)
    /\ i > FeeRegionStart + 1
    /\ At(i - 1) = TokFeeHeader
    /\ looks_like_money(At(i))
    /\ At(i - 2) = TokFeeHeader
    /\ current_fee = Some(<<"L", "a", "b", " ", "F", "e", "e">>)

\* C5: no tuition label, fee name or fee row label is one of the two markers.
C5_MarkersNeverData ==
    /\ \A r \in AllRates \cup AllFeeRows : ~IsMarker(r.label)
    /\ \A b \in 1..Len(fees) : ~IsMarker(fees[b].fee_name)

\* C6: the cursor never moves back, an iteration reads only the token at the cursor
\* and the one after it, and the tokens committed to records follow one another
\* from left to right, so that no token belongs to two records.
C6_ConsumedOnce ==
    /\ read_from <= i
    /\ reads \subseteq {read_from, NextIdx(read_from)}
    /\ \A k \in 1..Len(log) :
          /\ \A t \in 1..Len(log[k].toks) : log[k].toks[t] < i
          /\ Len(log[k].toks) = 2 => log[k].toks[1] < log[k].toks[2]
    /\ \A k \in 1..(Len(log) - 1) :
          log[k].toks[Len(log[k].toks)] < log[k + 1].toks[1]

C6_Witness ==
    /\ pc = "done"
    /\ Len(log) >= 2
    /\ log[1].kind = "rate"
    /\ log[2].kind = "rate"
    /\ looks_like_money(At(log[1].toks[2]))

\* the integer written by the digits and separators that directly follow position p
DigitRunValue(tok, p) == PyInt(RemoveChar(DigitCommaRun(tok, p + 1), ","))

\* C7: the amount of every emitted row is the non-negative integer written right
\* after the "$" that made its money token look like money.
C7_AmountIsDigitRun ==
    \A k \in RowEntries :
        /\ log[k].rec.amount # None
        /\ log[k].rec.amount[1] >= 0
        /\ log[k].rec.amount[1] =
              DigitRunValue(MoneyTokOf(k), Leftmost(MoneyMatches(MoneyTokOf(k))))

\* the money token of row k carries no unit of its own
NoOwnUnit(k) == ~Truthy(UnitOf(MoneyTokOf(k)))

MarkerBefore(t) == \E j \in 0..(t - 1) : At(j) = PerCreditHour

\* C8: a tuition rate whose money token carries no unit has the unit
\* "per credit hour" exactly when a "Per Credit Hour" token precedes its label,
\* and a null unit otherwise.
C8_UnitFallback ==
    \A k \in RowEntries :
        (log[k].kind = "rate" /\ NoOwnUnit(k)) =>
            /\ log[k].rec.unit = Some(PerCreditHourUnit) <=> MarkerBefore(LabelIdxOf(k))
            /\ ~MarkerBefore(LabelIdxOf(k)) => log[k].rec.unit = None

C8_Witness ==
    /\ pc = "done"
    /\ \E k \in RowEntries :
          /\ log[k].kind = "rate"
          /\ MoneyTokOf(k) = TokMoney
          /\ MarkerBefore(LabelIdxOf(k))
          /\ log[k].rec.unit = Some(PerCreditHourUnit)
          /\ tuition_rates[k] = log[k].rec

PerCourse == <<"p","e","r"," ","c","o","u","r","s","e">>

\* C9: a tuition rate whose money token carries a unit after "/" has that unit,
\* with runs of blanks made single spaces, whether or not a default unit is set.
C9_UnitOverride ==
    \A k \in RowEntries :
        (log[k].kind = "rate" /\ Contains(MoneyTokOf(k), <<"/">>)
            /\ Strip(AfterFirstSlash(MoneyTokOf(k))) # <<>>) =>
            /\ log[k].rec.unit # None
            /\ log[k].rec.unit # Some(PerCreditHourUnit)
            /\ log[k].rec.unit[1] = CollapseSpaces(Strip(AfterFirstSlash(MoneyTokOf(k))))
            /\ \A c \in 1..(Len(log[k].rec.unit[1]) - 1) :
                  ~(IsSpace(log[k].rec.unit[1][c]) /\ IsSpace(log[k].rec.unit[1][c + 1]))
            /\ MoneyTokOf(k) = TokMoneyUnit => log[k].rec.unit = Some(PerCourse)

C9_Witness ==
    /\ pc = "done"
    /\ tuition_unit_default = Some(PerCreditHourUnit)
    /\ \E k \in 1..Len(tuition_rates) :
          /\ log[k].kind = "rate"
          /\ MoneyTokOf(k) = TokMoneyUnit
          /\ MarkerBefore(LabelIdxOf(k))
          /\ tuition_rates[k].unit = Some(PerCourse)

\* L, X, M at t, t+1, t+2: a label, a stray token that is not money, a money token
StrayBetween(t) ==
    /\ InRange(t + 2)
    /\ ~looks_like_money(At(t)) /\ ~IsMarker(At(t))
    /\ ~looks_like_money(At(t + 1)) /\ ~IsMarker(At(t + 1))
    /\ looks_like_money(At(t + 2))

\* C10: when a stray token stands between a label and a money token, no row is
\* made of the three tokens: the money token is attached to no label.
C10_StrayDropsMoney ==
    \A t \in 0..(Len(items) - 3) :
        StrayBetween(t) =>
            \A k \in RowEntries :
                log[k].toks[1] \notin {t, t + 1, t + 2} /\ log[k].toks[2] # t + 2

\* the index of the first "Per Semester", or len(items) when there is none
FirstSemester == SeekTerminator(0)

\* C11: phase 1 stops at the first "Per Semester" and leaves it to the skip of
\* lines 101-102; tuition rates are made of tokens below it, fee headers and fee
\* rows of tokens above it.
C11_RegionSeparation ==
    /\ pc = "seek" => i = FirstSemester
    /\ pc = "tuition" => i <= FirstSemester
    /\ pc \in {"fees", "done"} => i >= FeeRegionStart
    /\ \A k \in 1..Len(log) : \A t \in 1..Len(log[k].toks) :
          IF log[k].kind = "rate"
          THEN log[k].toks[t] < FirstSemester
          ELSE log[k].toks[t] > FirstSemester

C11_Witness ==
    /\ pc = "done"
    /\ InRange(FirstSemester)
    /\ \E k \in RowEntries : log[k].kind = "rate" /\ log[k].toks[2] = FirstSemester - 1
    /\ \E h \in HeaderEntries : log[h].toks[1] = FirstSemester + 1

\* C12: a token that contains "Fee" and also looks like money never starts a fee
\* block (and so never flushes the open one).
C12_MoneyIsNoHeader ==
    \A h \in HeaderEntries : ~looks_like_money(At(log[h].toks[1]))

\* the n-th smallest element of a set of numbers
Nth(S, n) == CHOOSE x \in S : Cardinality({y \in S : y <= x}) = n

\* log entries of fee rows
FeeRowEntries == {k \in RowEntries : log[k].kind = "row"}

\* fee region indices whose token was the current token and passed the header test
HeaderIdxs ==
    {t \in FeeRegionStart..(Len(items) - 1) : is_fee_header(At(t)) /\ t \notin MoneyIdxs}

\* the nearest of the headers H before index l (-1 when there is none)
NearestIn(H, l) ==
    IF \E t \in H : t < l
    THEN CHOOSE t \in H : t < l /\ \A u \in H : u < l => u <= t
    ELSE -1

\* the nearest fee header before index l
NearestHeader(l) == NearestIn(HeaderIdxs, l)

\* for each fee row of the log, the index of the nearest fee header before its label
HeaderOfEntry ==
    LET H == HeaderIdxs
    IN [k \in FeeRowEntries |-> NearestIn(H, LabelIdxOf(k))]

\* number of rows in the first b blocks of the output
RECURSIVE RowsUpTo(_)
RowsUpTo(b) == IF b = 0 THEN 0 ELSE RowsUpTo(b - 1) + Len(fees[b].rows)

\* for row r of block b of the output, its log entry, rows counted in stream order
EntryOfRow ==
    LET R == FeeRowEntries
    IN [b \in 1..Len(fees) |->
           [r \in 1..Len(fees[b].rows) |-> Nth(R, RowsUpTo(b - 1) + r)]]

\* C13: in the output every fee row sits in the block named by the nearest fee
\* header before its label (a header being a token that started a block); blocks
\* come in the order of their headers and rows in the order of their labels.
C13_RowsUnderNearestHeader ==
    pc = "done" =>
        /\ RowsUpTo(Len(fees)) <= Cardinality(FeeRowEntries)
        /\ LET hd == HeaderOfEntry
               en == EntryOfRow
           IN \A b \in 1..Len(fees) : \A r \in 1..Len(fees[b].rows) :
                 /\ fees[b].rows[r] = log[en[b][r]].rec
                 /\ hd[en[b][r]] >= FeeRegionStart
                 /\ fees[b].fee_name = FeeName(At(hd[en[b][r]]))
                 /\ \A c \in 1..(b - 1) : \A q \in 1..Len(fees[c].rows) :
                       hd[en[c][q]] < hd[en[b][r]]
                 /\ \A q \in 1..(r - 1) :
                       /\ LabelIdxOf(en[b][q]) < LabelIdxOf(en[b][r])
                       /\ hd[en[b][q]] = hd[en[b][r]]

C13_Witness ==
    /\ pc = "done"
    /\ Len(fees) = 2
    /\ fees[1].fee_name = <<"L", "a", "b", " ", "F", "e", "e">>
    /\ fees[2].fee_name = TokFeeMoneyUnit
    /\ fees[1].rows # fees[2].rows

\* C14: every fee header that got at least one row gives exactly one block of the
\* output, with all of its rows, the block still open at the end included.
C14_FilledHeaderGivesBlock ==
    pc = "done" =>
        LET hd == HeaderOfEntry
            filled == {hd[k] : k \in FeeRowEntries}
            under == [t \in filled |-> {k \in FeeRowEntries : hd[k] = t}]
        IN /\ filled \subseteq HeaderIdxs
           /\ Len(fees) = Cardinality(filled)
           /\ \A n \in 1..Cardinality(filled) :
                 /\ n <= Len(fees)
                 /\ fees[n].fee_name = FeeName(At(Nth(filled, n)))
                 /\ Len(fees[n].rows) = Cardinality(under[Nth(filled, n)])
                 /\ \A r \in 1..Len(fees[n].rows) :
                       fees[n].rows[r] = log[Nth(under[Nth(filled, n)], r)].rec

C14_Witness ==
    /\ pc = "done"
    /\ Cardinality(HeaderIdxs) = 2
    /\ Len(fees) = 1
    /\ Len(fees[1].rows) = 2
    /\ fees[1].rows[1] # fees[1].rows[2]
    /\ Len(items) - 1 \in MoneyIdxs
    /\ NearestHeader(Len(items)) = Nth(HeaderIdxs, 2)

LoopStepAdvances ==
    (pc \in {"tuition", "fees"} /\ pc' = pc) => i' \in {i + 1, i + 2}

\* C16: both loops terminate: an iteration stops its loop or advances the cursor by
\* 1 or 2, the cursor never passes the end of the list, no token beyond the list is
\* read, and the run ends with the cursor at or past the end of the list.
C16_Terminates ==
    /\ [][LoopStepAdvances]_vars
    /\ [](i <= Len(items) /\ \A t \in reads : t < Len(items))
    /\ [](pc = "done" => i >= Len(items))
    /\ <>(pc = "done")

C16_Witness ==
    /\ pc = "done"
    /\ i = Len(items)
    /\ \E k \in RowEntries : log[k].kind = "row"
    /\ Len(items) > 2 * Cardinality(RowEntries)

\* no fee header has been the current token yet
NoHeaderYet == \A t \in HeaderIdxs : t >= i

\* with no block open, a token that is no header is skipped alone and nothing is kept
SkippedAlone ==
    (pc = "fees" /\ current_fee = None /\ InRange(i) /\ ~is_fee_header(At(i))) =>
        /\ i' = i + 1
        /\ reads' = {i}
        /\ current_fee' = None
        /\ UNCHANGED <<fees, current_rows, log>>

\* C17: fee rows require an open block: before the first fee header no block is
\* open and no row or block is made, a label/money pair there is skipped one token
\* at a time, and every fee row has a fee header before its label.
C17_RowsNeedOpenBlock ==
    /\ []((pc = "fees" /\ NoHeaderYet) =>
             /\ current_fee = None
             /\ current_rows = <<>>
             /\ fees = <<>>
             /\ FeeRowEntries = {})
    /\ [](\A k \in FeeRowEntries : \E t \in HeaderIdxs : t < LabelIdxOf(k))
    /\ [](pc = "done" /\ HeaderIdxs = {} => fees = <<>>)
    /\ [][SkippedAlone]_vars

C17_Witness ==
    /\ pc = "done"
    /\ InRange(FeeRegionStart + 1)
    /\ ~is_fee_header(At(FeeRegionStart))
    /\ looks_like_money(At(FeeRegionStart + 1))
    /\ Len(fees) = 1
    /\ \A k \in FeeRowEntries : LabelIdxOf(k) > FeeRegionStart + 1

\* C18: the unit of a fee row is the unit of its own money token, null when that
\* token has no "/": the default unit of "Per Credit Hour" is never put in.
C18_DefaultForTuitionOnly ==
    /\ \A k \in FeeRowEntries :
          /\ log[k].rec.unit = UnitOf(MoneyTokOf(k))
          /\ ~Contains(MoneyTokOf(k), <<"/">>) => log[k].rec.unit = None
    /\ \A row \in AllFeeRows : \E e \in FeeRowEntries : row = log[e].rec

C18_Witness ==
    /\ pc = "done"
    /\ tuition_unit_default = Some(PerCreditHourUnit)
    /\ \E k \in 1..Len(tuition_rates) : tuition_rates[k].unit = Some(PerCreditHourUnit)
    /\ \E row \in AllFeeRows : row.unit = None
    /\ \E row \in AllFeeRows : row.unit = Some(<<"x">>)

\* the token list holds no "Per Semester"
NoSemester == \A t \in 0..(Len(items) - 1) : At(t) # PerSemester

\* C19: without a "Per Semester" token the run raises nothing, phase 1 runs the
\* cursor to the end of the list, the fee loop reads no token, and fees is empty.
C19_NoTerminatorNoFees ==
    NoSemester =>
        /\ pc # "raised"
        /\ pc \in {"seek", "fees", "done"} => i = Len(items)
        /\ fees = <<>>
        /\ current_fee = None
        /\ current_rows = <<>>
        /\ HeaderEntries = {}
        /\ FeeRowEntries = {}

C19_Witness ==
    /\ pc = "done"
    /\ NoSemester
    /\ \E t \in 0..(Len(items) - 3) :
          /\ is_fee_header(At(t))
          /\ ~is_fee_header(At(t + 1))
          /\ ~looks_like_money(At(t + 1))
          /\ looks_like_money(At(t + 2))
    /\ fees = <<>>

\* C20: the two money recognisers agree on every token the parser reads:
\* looks_like_money(t) exactly when money_amount_and_unit(t) has an amount, so
\* every token the lookahead accepts yields an integer amount.
C20_RecognisersAgree ==
    /\ \A t \in reads :
          looks_like_money(At(t)) <=> money_amount_and_unit(At(t))[1] # None
    /\ \A t \in 0..(Len(items) - 2) :
          (t \in reads /\ t + 1 \in reads /\ NextIsMoney(t)) => NextAmount(t) # None

\* C21: no emitted label is itself a money token: the label of every tuition rate
\* and of every fee row is a token for which looks_like_money is false.
C21_LabelNeverMoney ==
    /\ \A k \in RowEntries : ~looks_like_money(At(LabelIdxOf(k)))
    /\ \A r \in AllRates \cup AllFeeRows : ~looks_like_money(r.label)

----------------------------------------------------------------------------
(* The section token collector of the scrapers                              *)
(* (src/scrape_grad_tuition.py, src/scrape_tuition.py, lines 8-36).         *)
(* nodes is start_tag.next_elements in document order: a tag has a name, a  *)
(* text node has the name "#text" and a string.                             *)

\* Longest run of elements after the start header.
MaxNodes == 4

\* re.sub(r"\s+", " ", s).strip()
norm(s) == Strip(CollapseSpaces(s))

\* the junk tokens of line 25
JunkTokens == {<<Raquo>>, <<"|">>}

Tag(n) == [name |-> n, string |-> <<>>]
TextNode(t) == [name |-> "#text", string |-> t]

TokFiveSpaced == <<" ", "$", "5">>
TokBlank == <<" ">>

NodeVocabulary ==
    {Tag("h2"), Tag("h3"), TextNode(TokLabel), TextNode(TokFee), TextNode(TokFive),
     TextNode(TokFiveSpaced), TextNode(TokStray), TextNode(<<"|">>), TextNode(TokBlank)}

NodeLists == UNION {[1..n -> NodeVocabulary] : n \in 0..MaxNodes}

\* stop_names of the two collectors and of the h3 call of line 61
StopNameSets == {{"h2"}, {"h2", "h3"}}

\* isinstance(el, str)
IsText(el) == el.name = "#text"

\* the loop of lines 17-27 from element k on
RECURSIVE CollectFrom(_, _, _)
CollectFrom(els, stops, k) ==
    IF k > Len(els) \/ els[k].name \in stops THEN <<>>
    ELSE IF IsText(els[k]) /\ norm(els[k].string) # <<>>
                           /\ norm(els[k].string) \notin JunkTokens
         THEN <<norm(els[k].string)>> \o CollectFrom(els, stops, k + 1)
         ELSE CollectFrom(els, stops, k + 1)

\* a de-duplication that drops only a repeat of the token just before
RECURSIVE DedupAdjacent(_, _)
DedupAdjacent(xs, seen) ==
    IF xs = <<>> THEN <<>>
    ELSE IF Head(xs) \in seen THEN DedupAdjacent(Tail(xs), {Head(xs)})
    ELSE <<Head(xs)>> \o DedupAdjacent(Tail(xs), {Head(xs)})

\* the loop of lines 30-35 on the rest xs of out, with the set seen
RECURSIVE Dedup(_, _)
Dedup(xs, seen) ==
    IF xs = <<>> THEN <<>>
    ELSE IF Head(xs) \in seen THEN Dedup(Tail(xs), seen)
    ELSE <<Head(xs)>> \o Dedup(Tail(xs), seen \cup {Head(xs)})

InitScrape ==
    /\ nodes \in NodeLists
    /\ stop_names \in StopNameSets
    /\ spc = "collect"
    /\ out = <<>>
    /\ cleaned = <<>>
    /\ NotScrapeIdle

\* lines 16-27
CollectTextNodes ==
    /\ spc = "collect"
    /\ out' = CollectFrom(nodes, stop_names, 1)
    /\ spc' = "dedup"
    /\ UNCHANGED <<nodes, stop_names, cleaned>>
    /\ UNCHANGED notScrape

\* lines 29-36
DeDup ==
    /\ spc = "dedup"
    /\ cleaned' = Dedup(out, {})
    /\ spc' = "returned"
    /\ UNCHANGED <<nodes, stop_names, out>>
    /\ UNCHANGED notScrape

NextScrape == CollectTextNodes \/ DeDup

SpecScrape == InitScrape /\ [][NextScrape]_vars

\* the elements before the first stop header
RegionEnd ==
    IF \E k \in 1..Len(nodes) : nodes[k].name \in stop_names
    THEN (CHOOSE k \in 1..Len(nodes) :
              /\ nodes[k].name \in stop_names
              /\ \A j \in 1..(k - 1) : nodes[j].name \notin stop_names) - 1
    ELSE Len(nodes)

\* positions of the text nodes of the region that are kept as tokens
TokenNodes ==
    {k \in 1..RegionEnd :
        /\ IsText(nodes[k])
        /\ norm(nodes[k].string) # <<>>
        /\ norm(nodes[k].string) \notin JunkTokens}

\* the first text node of the region whose token is t
FirstNodeOf(t) ==
    CHOOSE k \in TokenNodes :
        /\ norm(nodes[k].string) = t
        /\ \A j \in TokenNodes : norm(nodes[j].string) = t => k <= j

\* C22: the collector returns the tokens of the text nodes between the start
\* header and the next stop header, each once, in the order of first occurrence,
\* without empty strings and junk tokens; de-duplicating again changes nothing.
C22_DuplicateFreeSubsequence ==
    spc = "returned" =>
        /\ \A a, b \in 1..Len(cleaned) : cleaned[a] = cleaned[b] => a = b
        /\ {cleaned[a] : a \in 1..Len(cleaned)}
              = {norm(nodes[k].string) : k \in TokenNodes}
        /\ \A a, b \in 1..Len(cleaned) :
              a < b => FirstNodeOf(cleaned[a]) < FirstNodeOf(cleaned[b])
        /\ \A a \in 1..Len(cleaned) :
              cleaned[a] # <<>> /\ cleaned[a] \notin JunkTokens
        /\ Dedup(cleaned, {}) = cleaned

C22_Witness ==
    /\ spc = "returned"
    /\ Len(cleaned) >= 1
    /\ Len(out) > Len(cleaned)
    /\ RegionEnd < Len(nodes)
    /\ \E k \in 1..RegionEnd : IsText(nodes[k]) /\ norm(nodes[k].string) \in JunkTokens

\* the token node that follows token node k in the section
NextTokenNode(k) ==
    CHOOSE m \in TokenNodes : m > k /\ \A j \in TokenNodes : j > k => m <= j

\* a label text node immediately followed by a money text node
LabelMoneyNodes ==
    {k \in TokenNodes :
        /\ \E m \in TokenNodes : m > k
        /\ ~looks_like_money(norm(nodes[k].string))
        /\ looks_like_money(norm(nodes[NextTokenNode(k)].string))}

\* C23: a label text node immediately followed by a money text node in the page
\* section gives two adjacent tokens in the list handed to the parser, also when
\* two rows of the page carry the same money text.
C23_AdjacencyPreserved ==
    spc = "returned" =>
        \A k \in LabelMoneyNodes :
            \E q \in 1..(Len(cleaned) - 1) :
                /\ cleaned[q] = norm(nodes[k].string)
                /\ cleaned[q + 1] = norm(nodes[NextTokenNode(k)].string)

----------------------------------------------------------------------------
(* The undergraduate parser (src/src/parse_tuition.py).  ug_items, ug_i and *)
(* ug_fees are the script's items, i and fees; section_name is 0 in the     *)
(* tuition loop and 1, 2 for "Mandatory Fees", "Other Fees"; ug_reads holds *)
(* the indices of items the last iteration asked for.                       *)

\* Longest section of the undergraduate page.
MaxUgLen == 3

\* s.startswith(pat)
StartsWith(s, pat) == Len(s) >= Len(pat) /\ SubSeq(s, 1, Len(pat)) = pat

Admitted == <<"A", "d", "m", "i", "t", "t", "e", "d">>

\* the pair (amount, unit) of lines 20-30
parse_money(s) ==
    IF AmountMatches(s) = {}
    THEN <<None, None>>
    ELSE <<Some(PyInt(RemoveChar(DigitCommaRun(s, Leftmost(AmountMatches(s)) + 1), ","))),
           IF Contains(s, <<"/">>) THEN Some(Strip(AfterFirstSlash(s))) ELSE None>>

TokAdmitted == Admitted \o <<" ", "2", "4">>
TokFiveUnit == <<"$", "5", "/", " ", "y">>
TokX == <<"x">>

UgVocabulary == {TokAdmitted, TokFive, TokFiveUnit, TokX}

UgLists == UNION {[1..n -> UgVocabulary] : n \in 0..MaxUgLen}

\* ["Mandatory Fees", "Other Fees"]
FeeSections == 1..2

UgAt(k) == ug_items[k + 1]
UgInRange(k) == 0 <= k /\ k < Len(ug_items)

InitUg ==
    /\ ug_items \in UgLists
    /\ ug_i = 0
    /\ ug_pc = "tuition"
    /\ section_name = 0
    /\ tuition = <<>>
    /\ ug_fees = <<>>
    /\ ug_reads = {}
    /\ NotUgIdle

\* lines 37-47; items[i+1] or items[i+2] beyond the list raises IndexError
UgAdmitted ==
    /\ ug_pc = "tuition"
    /\ UgInRange(ug_i)
    /\ StartsWith(UgAt(ug_i), Admitted)
    /\ IF UgInRange(ug_i + 2)
       THEN /\ tuition' = Append(tuition,
                  [cohort |-> UgAt(ug_i),
                   full_time_per_semester |-> parse_money(UgAt(ug_i + 1))[1],
                   per_credit |-> parse_money(UgAt(ug_i + 2))[1]])
            /\ ug_i' = ug_i + 3
            /\ ug_pc' = ug_pc
            /\ ug_reads' = {ug_i, ug_i + 1, ug_i + 2}
       ELSE /\ ug_pc' = "raised"
            /\ ug_reads' = IF UgInRange(ug_i + 1) THEN {ug_i, ug_i + 1, ug_i + 2}
                                                  ELSE {ug_i, ug_i + 1}
            /\ UNCHANGED <<tuition, ug_i>>
    /\ UNCHANGED <<ug_items, section_name, ug_fees>>
    /\ UNCHANGED notUg

\* lines 48-49
UgTuitionSkip ==
    /\ ug_pc = "tuition"
    /\ UgInRange(ug_i)
    /\ ~StartsWith(UgAt(ug_i), Admitted)
    /\ ug_i' = ug_i + 1
    /\ ug_reads' = {ug_i}
    /\ UNCHANGED <<ug_items, ug_pc, section_name, tuition, ug_fees>>
    /\ UNCHANGED notUg

\* line 36 false: the tuition loop is left
UgTuitionEnd ==
    /\ ug_pc = "tuition"
    /\ ~UgInRange(ug_i)
    /\ ug_pc' = "section"
    /\ section_name' = 1
    /\ ug_reads' = {}
    /\ UNCHANGED <<ug_items, ug_i, tuition, ug_fees>>
    /\ UNCHANGED notUg

\* lines 52-54: the next section of the file becomes items
UgSection ==
    /\ ug_pc = "section"
    /\ section_name \in FeeSections
    /\ \E sec \in UgLists : ug_items' = sec
    /\ ug_i' = 0
    /\ ug_pc' = "fees"
    /\ ug_reads' = {}
    /\ UNCHANGED <<section_name, tuition, ug_fees>>
    /\ UNCHANGED notUg

\* lines 56-67
UgFeePair ==
    /\ ug_pc = "fees"
    /\ ug_i < Len(ug_items) - 1
    /\ parse_money(UgAt(ug_i + 1))[1] # None
    /\ ug_fees' = Append(ug_fees,
           [fee_name |-> UgAt(ug_i),
            amount |-> parse_money(UgAt(ug_i + 1))[1],
            unit |-> parse_money(UgAt(ug_i + 1))[2],
            category |-> section_name])
    /\ ug_i' = ug_i + 2
    /\ ug_reads' = {ug_i, ug_i + 1}
    /\ UNCHANGED <<ug_items, ug_pc, section_name, tuition>>
    /\ UNCHANGED notUg

\* lines 56-59 and 68-69
UgFeeSkip ==
    /\ ug_pc = "fees"
    /\ ug_i < Len(ug_items) - 1
    /\ parse_money(UgAt(ug_i + 1))[1] = None
    /\ ug_i' = ug_i + 1
    /\ ug_reads' = {ug_i, ug_i + 1}
    /\ UNCHANGED <<ug_items, ug_pc, section_name, tuition, ug_fees>>
    /\ UNCHANGED notUg

\* line 55 false: the next section, or the end of the for loop
UgFeeEnd ==
    /\ ug_pc = "fees"
    /\ ~(ug_i < Len(ug_items) - 1)
    /\ IF section_name + 1 \in FeeSections
       THEN ug_pc' = "section" /\ section_name' = section_name + 1
       ELSE ug_pc' = "done" /\ section_name' = section_name
    /\ ug_reads' = {}
    /\ UNCHANGED <<ug_items, ug_i, tuition, ug_fees>>
    /\ UNCHANGED notUg

NextUg ==
    \/ UgAdmitted
    \/ UgTuitionSkip
    \/ UgTuitionEnd
    \/ UgSection
    \/ UgFeePair
    \/ UgFeeSkip
    \/ UgFeeEnd

SpecUg == InitUg /\ [][NextUg]_vars

\* C24: the undergraduate parser never reads past the end of the token list: every
\* index an iteration reads is below the list length and no IndexError is raised,
\* also when an "Admitted" token is one of the last two tokens.
C24_UgReadsInRange ==
    /\ ug_pc # "raised"
    /\ \A t \in ug_reads : t < Len(ug_items)

\* C25: every record of the undergraduate parser has parsed amounts: a fee has an
\* integer amount, a tuition record has full_time_per_semester and per_credit.
C25_UgAmountsParsed ==
    /\ \A k \in 1..Len(ug_fees) : ug_fees[k].amount # None
    /\ \A k \in 1..Len(tuition) :
          /\ tuition[k].full_time_per_semester # None
          /\ tuition[k].per_credit # None

----------------------------------------------------------------------------
(* The directory pagination loop (src/Directory.py, scrape_all_people).     *)
(* requested lists the page numbers asked of the server and responses what  *)
(* each request produced.                                                   *)

\* max_pages of line 74; the script's value is 200.
max_pages == 5

\* the threshold of lines 99 and 128
NoResultsLimit == 3

\* a person as extract_person_from_article returns it
Person(n, u) == [name |-> n, profile_url |-> u]

UrlA == <<"/", "a">>
UrlB == <<"/", "b">>

\* what the articles of one page can give: no person at all, a person, a second
\* person with the same profile_url, two persons with an empty and with no
\* profile_url, a person with another profile_url
PagePeople ==
    {<<>>,
     <<Person("a", Some(UrlA))>>,
     <<Person("b", Some(UrlA))>>,
     <<Person("c", Some(<<>>)), Person("d", None)>>,
     <<Person("e", Some(UrlB))>>}

\* a loop guard that lets one more page through
MorePagesInclusive == page_num <= max_pages

\* while page_num < max_pages
MorePages == page_num < max_pages

\* a duplicate removal that keeps people without profile_url
RECURSIVE UniqueKeepsEmpty(_, _)
UniqueKeepsEmpty(people, seen_urls) ==
    IF people = <<>> THEN <<>>
    ELSE IF Head(people).profile_url \notin seen_urls
         THEN <<Head(people)>>
                  \o UniqueKeepsEmpty(Tail(people), seen_urls \cup {Head(people).profile_url})
         ELSE UniqueKeepsEmpty(Tail(people), seen_urls)

\* lines 135-141 on the rest of all_people, with the set seen_urls
RECURSIVE Unique(_, _)
Unique(people, seen_urls) ==
    IF people = <<>> THEN <<>>
    ELSE IF Truthy(Head(people).profile_url)
            /\ Head(people).profile_url \notin seen_urls
         THEN <<Head(people)>>
                  \o Unique(Tail(people), seen_urls \cup {Head(people).profile_url})
         ELSE Unique(Tail(people), seen_urls)

InitDir ==
    /\ all_people = <<>>
    /\ page_num = 0
    /\ no_results_count = 0
    /\ unique_people = <<>>
    /\ dir_pc = "loop"
    /\ requested = <<>>
    /\ responses = <<>>
    /\ NotDirIdle

\* lines 87-91: a status code other than 200
PageNot200 ==
    /\ dir_pc = "loop"
    /\ MorePages
    /\ requested' = Append(requested, page_num)
    /\ responses' = Append(responses, "status")
    /\ dir_pc' = "dedup"
    /\ UNCHANGED <<all_people, page_num, no_results_count, unique_people>>
    /\ UNCHANGED notDir

\* lines 96-104: a page without articles
PageNoArticles ==
    /\ dir_pc = "loop"
    /\ MorePages
    /\ requested' = Append(requested, page_num)
    /\ responses' = Append(responses, "empty")
    /\ no_results_count' = no_results_count + 1
    /\ IF no_results_count + 1 >= NoResultsLimit
       THEN dir_pc' = "dedup" /\ page_num' = page_num
       ELSE dir_pc' = dir_pc /\ page_num' = page_num + 1
    /\ UNCHANGED <<all_people, unique_people>>
    /\ UNCHANGED notDir

\* a page with articles that does not reset the counter
PageArticlesNoReset ==
    /\ dir_pc = "loop"
    /\ MorePages
    /\ requested' = Append(requested, page_num)
    /\ responses' = Append(responses, "articles")
    /\ \E page_people \in PagePeople : all_people' = all_people \o page_people
    /\ page_num' = page_num + 1
    /\ UNCHANGED <<no_results_count, unique_people, dir_pc>>
    /\ UNCHANGED notDir

\* lines 106-123: a page with articles
PageArticles ==
    /\ dir_pc = "loop"
    /\ MorePages
    /\ requested' = Append(requested, page_num)
    /\ responses' = Append(responses, "articles")
    /\ no_results_count' = 0
    /\ \E page_people \in PagePeople : all_people' = all_people \o page_people
    /\ page_num' = page_num + 1
    /\ UNCHANGED <<unique_people, dir_pc>>
    /\ UNCHANGED notDir

\* a failed request that is made again
PageExceptionRetry ==
    /\ dir_pc = "loop"
    /\ MorePages
    /\ requested' = Append(requested, page_num)
    /\ responses' = Append(responses, "exception")
    /\ no_results_count' = no_results_count + 1
    /\ IF no_results_count + 1 >= NoResultsLimit
       THEN dir_pc' = "dedup"
       ELSE dir_pc' = dir_pc
    /\ UNCHANGED <<page_num, all_people, unique_people>>
    /\ UNCHANGED notDir

\* lines 87 and 125-132: the request (or the parsing of the page) raises
PageException ==
    /\ dir_pc = "loop"
    /\ MorePages
    /\ requested' = Append(requested, page_num)
    /\ responses' = Append(responses, "exception")
    /\ no_results_count' = no_results_count + 1
    /\ IF no_results_count + 1 >= NoResultsLimit
       THEN dir_pc' = "dedup" /\ page_num' = page_num
       ELSE dir_pc' = dir_pc /\ page_num' = page_num + 1
    /\ UNCHANGED <<all_people, unique_people>>
    /\ UNCHANGED notDir

\* line 82 false
PagesExhausted ==
    /\ dir_pc = "loop"
    /\ ~MorePages
    /\ dir_pc' = "dedup"
    /\ UNCHANGED <<all_people, page_num, no_results_count, unique_people,
                   requested, responses>>
    /\ UNCHANGED notDir

\* lines 134-147
RemoveDuplicates ==
    /\ dir_pc = "dedup"
    /\ unique_people' = Unique(all_people, {})
    /\ dir_pc' = "returned"
    /\ UNCHANGED <<all_people, page_num, no_results_count, requested, responses>>
    /\ UNCHANGED notDir

NextDir ==
    \/ PageNot200
    \/ PageNoArticles
    \/ PageArticles
    \/ PageException
    \/ PagesExhausted
    \/ RemoveDuplicates

SpecDir == InitDir /\ [][NextDir]_vars

\* the function runs its statements one after the other
FairSpecDir == SpecDir /\ WF_vars(NextDir)

\* the request kinds that count as a failed page
FailedKinds == {"empty", "exception"}

\* how many failed pages end the sequence of responses
TrailingFailures ==
    LET n == Len(responses)
        good == {k \in 1..n : responses[k] \notin FailedKinds}
        last == IF good = {} THEN 0 ELSE CHOOSE k \in good : \A j \in good : j <= k
    IN n - last

LastResponse == IF responses = <<>> THEN "none" ELSE responses[Len(responses)]

\* C26: the pagination loop ends after at most max_pages page requests, whatever
\* the server answers, and the function returns people it collected, each
\* profile_url once.
C26_DirTerminates ==
    /\ [](Len(requested) <= max_pages)
    /\ <>(dir_pc = "returned")
    /\ [](dir_pc = "returned" =>
             /\ \A k \in 1..Len(unique_people) :
                   \E j \in 1..Len(all_people) : unique_people[k] = all_people[j]
             /\ \A j \in 1..Len(all_people) :
                   Truthy(all_people[j].profile_url) =>
                       \E k \in 1..Len(unique_people) :
                           unique_people[k].profile_url = all_people[j].profile_url)

C26_Witness ==
    /\ dir_pc = "returned"
    /\ Len(requested) = max_pages
    /\ \E k \in 1..Len(responses) : responses[k] = "exception"
    /\ \E k \in 1..Len(responses) : responses[k] = "empty"
    /\ unique_people # <<>>

\* C27: the loop stops right after the third consecutive failed page (no
\* articles, or an exception), a page with articles sets the counter to zero, a
\* status other than 200 stops the loop at once, and nothing else stops it before
\* max_pages.
C27_ThreeFailuresStop ==
    /\ LastResponse # "status" => no_results_count = TrailingFailures
    /\ dir_pc = "loop" => (TrailingFailures < NoResultsLimit /\ LastResponse # "status")
    /\ dir_pc # "loop" =>
          \/ LastResponse = "status"
          \/ TrailingFailures = NoResultsLimit
          \/ page_num >= max_pages
    /\ TrailingFailures <= NoResultsLimit
    /\ \A k \in 1..(Len(responses) - 1) : responses[k] # "status"

C27_Witness ==
    /\ dir_pc = "returned"
    /\ responses = <<"exception", "articles", "empty", "exception", "empty">>
    /\ page_num < max_pages

\* C28: pages are requested in the order 0, 1, 2, ... without gap or repeat: a
\* failed page is not requested again; page_num never decreases.
C28_PagesInOrder ==
    /\ [](\A k \in 1..Len(requested) : requested[k] = k - 1)
    /\ [][page_num' >= page_num]_vars

C28_Witness ==
    /\ dir_pc = "returned"
    /\ Len(requested) >= 4
    /\ responses[1] = "exception"
    /\ responses[2] = "empty"

\* positions of all_people whose profile_url is u
WithUrl(u) == {j \in 1..Len(all_people) : all_people[j].profile_url = u}

FirstWithUrl(u) == CHOOSE j \in WithUrl(u) : \A m \in WithUrl(u) : j <= m

\* C29: the returned people have pairwise distinct, non-empty profile_url values:
\* of the people with one profile_url the first collected is kept, people with an
\* empty or no profile_url are dropped, and the kept people are in collection order.
C29_UniqueProfileUrls ==
    dir_pc = "returned" =>
        /\ \A a, b \in 1..Len(unique_people) :
              unique_people[a].profile_url = unique_people[b].profile_url => a = b
        /\ \A a \in 1..Len(unique_people) :
              /\ Truthy(unique_people[a].profile_url)
              /\ WithUrl(unique_people[a].profile_url) # {}
              /\ unique_people[a] = all_people[FirstWithUrl(unique_people[a].profile_url)]
        /\ \A j \in 1..Len(all_people) :
              Truthy(all_people[j].profile_url) =>
                  \E a \in 1..Len(unique_people) :
                      unique_people[a].profile_url = all_people[j].profile_url
        /\ \A a, b \in 1..Len(unique_people) :
              a < b => FirstWithUrl(unique_people[a].profile_url)
                          < FirstWithUrl(unique_people[b].profile_url)

C29_Witness ==
    /\ dir_pc = "returned"
    /\ Len(unique_people) = 2
    /\ \E j \in 1..Len(all_people) : all_people[j].profile_url = None
    /\ \E j \in 1..Len(all_people) : all_people[j].profile_url = Some(<<>>)
    /\ \E j, m \in 1..Len(all_people) :
          /\ j < m
          /\ all_people[j].profile_url = all_people[m].profile_url
          /\ all_people[j].name # all_people[m].name
          /\ Truthy(all_people[j].profile_url)

----------------------------------------------------------------------------
(* The handbook section extractor                                           *)
(* (src/src/scrape_coterminal_handbook.py, extract_sections).  doc is the   *)
(* text lines of the document in reading order, the first page_break of     *)
(* them on page 1 and the rest on page 2; line_no is the line being read.   *)

\* Longest document, in lines.
MaxDocLines == 4

\* [IVXLC] with re.IGNORECASE
IsNumeral(c) == c \in {"I", "V", "X", "L", "C", "i", "v", "x", "l", "c"}

\* length of the run of numerals that starts s
RECURSIVE NumeralRun(_)
NumeralRun(s) ==
    IF s # <<>> /\ IsNumeral(Head(s)) THEN 1 + NumeralRun(Tail(s)) ELSE 0

\* SECTION_HEADER_RE.match(line): numerals, ".", whitespace, a title
IsSectionHeader(line) ==
    LET n == NumeralRun(line)
    IN /\ n >= 1
       /\ Len(line) >= n + 3
       /\ line[n + 1] = "."
       /\ IsSpace(line[n + 2])

\* c.upper() for a numeral
UpperChar(c) ==
    CASE c = "i" -> "I" [] c = "v" -> "V" [] c = "x" -> "X"
      [] c = "l" -> "L" [] c = "c" -> "C" [] OTHER -> c

\* m.group('num').upper()
HeaderNum(line) == [k \in 1..NumeralRun(line) |-> UpperChar(line[k])]

\* m.group('title').strip()
HeaderTitle(line) == Strip(SubSeq(line, NumeralRun(line) + 2, Len(line)))

\* SENTENCE_END_RE.search(line)
EndsSentence(line) ==
    LET n == Len(line)
    IN \/ n >= 1 /\ line[n] \in {".", "?", "!"}
       \/ n >= 2 /\ line[n] \in {")", "\"", "]"} /\ line[n - 1] \in {".", "?", "!"}

\* sep.join(parts)
RECURSIVE Join(_, _)
Join(parts, sep) ==
    IF parts = <<>> THEN <<>>
    ELSE IF Len(parts) = 1 THEN parts[1]
    ELSE parts[1] \o sep \o Join(Tail(parts), sep)

LineHeaderOne == <<"I", ".", " ", "A">>
LineHeaderLower == <<"v", ".", " ", "b">>
LineOpen == <<"y">>
LineSentence == <<" ", "x", ".">>
LineBracket == <<"C", ".", ")">>
LineBlank == <<" ">>

LineVocabulary ==
    {LineHeaderOne, LineHeaderLower, LineOpen, LineSentence, LineBracket, LineBlank}

Docs == UNION {[1..n -> LineVocabulary] : n \in 0..MaxDocLines}

\* page_index of the page that holds line k
PageIndex(k) == IF k <= page_break THEN 0 ELSE 1

\* the section dictionary of lines 58-64
NewSection(line, k) ==
    [section_id |-> HeaderNum(line),
     title |-> HeaderNum(line) \o <<".", " ">> \o HeaderTitle(line),
     start_page |-> PageIndex(k) + 1,
     paragraphs |-> <<>>,
     full_text |-> <<>>]

\* target_section after flush_buffer(target_section), for a section that exists
Flushed(sec, buf) ==
    IF buf = <<>> \/ Strip(Join(buf, <<" ">>)) = <<>>
    THEN sec
    ELSE [sec EXCEPT
            !.paragraphs = Append(@, Strip(Join(buf, <<" ">>))),
            !.full_text = IF @ # <<>>
                          THEN @ \o <<" ">> \o Strip(Join(buf, <<" ">>))
                          ELSE Strip(Join(buf, <<" ">>))]

\* current_section after flush_buffer(current_section): None stays None
FlushedCurrent ==
    IF current_section = None THEN None
    ELSE Some(Flushed(current_section[1], buffer))

\* sections after "if current_section: sections.append(current_section)"
WithCurrent(cur) == IF cur = None THEN sections ELSE Append(sections, cur[1])

InitHb ==
    /\ doc \in Docs
    /\ page_break \in 0..Len(doc)
    /\ hb_pc = "lines"
    /\ line_no = 1
    /\ sections = <<>>
    /\ current_section = None
    /\ buffer = <<>>
    /\ NotHbIdle

\* l.strip() of line 45
Line == Strip(doc[line_no])

MoreLines == hb_pc = "lines" /\ line_no <= Len(doc)

\* line 45: a line that is empty after strip() is left out
HbBlank ==
    /\ MoreLines
    /\ Line = <<>>
    /\ line_no' = line_no + 1
    /\ UNCHANGED <<doc, page_break, hb_pc, sections, current_section, buffer>>
    /\ UNCHANGED notHb

\* a header whose flush goes to the section it opens
HbHeaderFlushToNew ==
    /\ MoreLines
    /\ Line # <<>>
    /\ IsSectionHeader(Line)
    /\ sections' = WithCurrent(current_section)
    /\ current_section' = Some(Flushed(NewSection(Line, line_no), buffer))
    /\ buffer' = <<>>
    /\ line_no' = line_no + 1
    /\ UNCHANGED <<doc, page_break, hb_pc>>
    /\ UNCHANGED notHb

\* lines 49-65: a section header
HbHeader ==
    /\ MoreLines
    /\ Line # <<>>
    /\ IsSectionHeader(Line)
    /\ sections' = WithCurrent(FlushedCurrent)
    /\ current_section' = Some(NewSection(Line, line_no))
    /\ buffer' = <<>>
    /\ line_no' = line_no + 1
    /\ UNCHANGED <<doc, page_break, hb_pc>>
    /\ UNCHANGED notHb

\* lines 67-69: text before the first section
HbIgnored ==
    /\ MoreLines
    /\ Line # <<>>
    /\ ~IsSectionHeader(Line)
    /\ current_section = None
    /\ line_no' = line_no + 1
    /\ UNCHANGED <<doc, page_break, hb_pc, sections, current_section, buffer>>
    /\ UNCHANGED notHb

\* lines 72-76: a body line that does not end a sentence
HbBuffered ==
    /\ MoreLines
    /\ Line # <<>>
    /\ ~IsSectionHeader(Line)
    /\ current_section # None
    /\ ~EndsSentence(Line)
    /\ buffer' = Append(buffer, Line)
    /\ line_no' = line_no + 1
    /\ UNCHANGED <<doc, page_break, hb_pc, sections, current_section>>
    /\ UNCHANGED notHb

\* lines 72-76: a body line that ends a sentence
HbParagraph ==
    /\ MoreLines
    /\ Line # <<>>
    /\ ~IsSectionHeader(Line)
    /\ current_section # None
    /\ EndsSentence(Line)
    /\ current_section' = Some(Flushed(current_section[1], Append(buffer, Line)))
    /\ buffer' = <<>>
    /\ line_no' = line_no + 1
    /\ UNCHANGED <<doc, page_break, hb_pc, sections>>
    /\ UNCHANGED notHb

\* lines 78-83: end of document
HbEnd ==
    /\ hb_pc = "lines"
    /\ line_no > Len(doc)
    /\ sections' = WithCurrent(FlushedCurrent)
    /\ current_section' = FlushedCurrent
    /\ buffer' = <<>>
    /\ hb_pc' = "returned"
    /\ UNCHANGED <<doc, page_break, line_no>>
    /\ UNCHANGED notHb

NextHb ==
    \/ HbBlank
    \/ HbHeader
    \/ HbIgnored
    \/ HbBuffered
    \/ HbParagraph
    \/ HbEnd

SpecHb == InitHb /\ [][NextHb]_vars

\* the lines of the document that are section headers
HeaderLines ==
    {k \in 1..Len(doc) : Strip(doc[k]) # <<>> /\ IsSectionHeader(Strip(doc[k]))}

\* the header line of the n-th section (Len(doc) + 1 past the last section)
HeaderLineOf(n) ==
    IF n > Cardinality(HeaderLines) THEN Len(doc) + 1 ELSE Nth(HeaderLines, n)

\* the body lines read while the n-th section was current, in reading order
RECURSIVE BodyFrom(_, _)
BodyFrom(k, stop) ==
    IF k >= stop THEN <<>>
    ELSE IF Strip(doc[k]) = <<>> THEN BodyFrom(k + 1, stop)
    ELSE <<Strip(doc[k])>> \o BodyFrom(k + 1, stop)

BodyOf(n) == BodyFrom(HeaderLineOf(n) + 1, HeaderLineOf(n + 1))

\* C30: no body line is lost or misplaced: there is one section per header, the
\* lines before the first header are in no section, the text of a section is
\* exactly its body lines in reading order (text buffered when the next header or
\* the end arrives included), every paragraph but the last ends a sentence, and
\* full_text is the paragraphs joined by single spaces.
C30_NoLineLost ==
    hb_pc = "returned" =>
        /\ Len(sections) = Cardinality(HeaderLines)
        /\ buffer = <<>>
        /\ \A n \in 1..Len(sections) :
              /\ sections[n].section_id = HeaderNum(Strip(doc[HeaderLineOf(n)]))
              /\ sections[n].full_text = Join(BodyOf(n), <<" ">>)
              /\ sections[n].full_text = Join(sections[n].paragraphs, <<" ">>)
              /\ \A q \in 1..Len(sections[n].paragraphs) :
                    /\ sections[n].paragraphs[q] # <<>>
                    /\ q < Len(sections[n].paragraphs) =>
                          EndsSentence(sections[n].paragraphs[q])

C30_Witness ==
    /\ hb_pc = "returned"
    /\ Len(sections) = 2
    /\ ~IsSectionHeader(Strip(doc[1]))
    /\ Strip(doc[1]) # <<>>
    /\ sections[1].paragraphs = <<LineOpen>>
    /\ sections[2].paragraphs = <<>>

====
